---- MODULE Spec2Model ----
(***************************************************************************)
(* pci-char: a generic driver that exposes the memory BARs of a PCI(e)     *)
(* device as character devices (src/pci-char.c).                           *)
(*                                                                         *)
(* The model has one PCI device, the driver's private structure for it,    *)
(* the kernel objects the driver acquires in pci_probe and gives back in   *)
(* pci_remove, the register memory behind each BAR, and a few open files   *)
(* on which llseek, read and write are issued.                             *)
(***************************************************************************)
EXTENDS Integers, Sequences, FiniteSets, TLC

(***************************************************************************)
(* Bounds of the model.                                                    *)
(***************************************************************************)
\* the largest transfer, in 32 bit words, that read and write are asked for
MaxWords == 2
\* the number of struct file that can be open at a time
NumFiles == 1
\* seeks are issued with offsets up to MaxPos and a target in -MaxPos..MaxPos
MaxPos == 8

(***************************************************************************)
(* Program constants.                                                      *)
(***************************************************************************)
NumBars == 6
WordSize == 4
SEEK_SET == 0
SEEK_CUR == 1
EIO == 5
ENXIO == 6
ENOMEM == 12
EFAULT == 14
EINVAL == 22
\* resource_size_t is unsigned, so "len - 4" wraps when len < 4.  The wrapped
\* value is at least 2^32 - 4; TLC integers end at 2^31 - 1, which stands for
\* it: every offset the model issues is far below both.
ResourceSizeMax == 2147483647

Bars == 0 .. (NumBars - 1)
Files == 1 .. NumFiles
\* the words user space writes; register memory starts out as 0
DataWords == {1, 2}
Words == {0} \cup DataWords

(***************************************************************************)
(* The device: what pci_resource_len() and the IORESOURCE_MEM flag of      *)
(* pci_resource_flags() say for each of its six BARs.                      *)
(***************************************************************************)
NoBar == [len |-> 0, mem |-> FALSE]
MemBar(n) == [len |-> n, mem |-> TRUE]
IoBar(n) == [len |-> n, mem |-> FALSE]

\* memory BARs 0 and 3, BAR 1 absent, BAR 2 memory typed but empty, BAR 4 an
\* I/O port range
DeviceA == [i \in Bars |->
              CASE i = 0 -> MemBar(8)
                [] i = 2 -> MemBar(0)
                [] i = 3 -> MemBar(4)
                [] i = 4 -> IoBar(8)
                [] OTHER -> NoBar]
\* a region shorter than one word and one whose length is no multiple of 4
DeviceB == [i \in Bars |->
              CASE i = 1 -> MemBar(2)
                [] i = 5 -> MemBar(6)
                [] OTHER -> NoBar]
Devices == {DeviceA, DeviceB}
\* one region of four words
DeviceC == [i \in Bars |-> IF i = 0 THEN MemBar(4 * WordSize) ELSE NoBar]

VARIABLES
  res,      \* the device's resources (fixed for a behaviour)
  k,        \* struct pci_char and the kernel objects pci_probe acquires
  mem,      \* the register memory behind each BAR, word by word
  files,    \* the open struct files: minor, f_pos, private_data
  last,     \* the call that is returning and what it did (history)
  wr,       \* the last store, while nothing else has touched a register
  drv,      \* the pci_probe or pci_remove call in progress, step by step
  thr       \* the dev_seek calls in progress on one file, step by step

vars == <<res, k, mem, files, last, wr, drv, thr>>

(***************************************************************************)
(* Pointers.  ioremap() gives a mapping or NULL; IS_ERR() is true only of  *)
(* the error pointers, the top 4095 addresses.                             *)
(***************************************************************************)
IoremapResults == {"iomem", "null"}
IS_ERR(p) == p = "errptr"

\* pci_select_bars(pdev, IORESOURCE_MEM)
pci_select_bars == {i \in Bars : res[i].mem}
\* pci_resource_len(pdev, i)
pci_resource_len(i) == res[i].len
\* ioremap(start, len): NULL for an empty range, else what the kernel decides
ioremap(i, io) == IF pci_resource_len(i) = 0 THEN "null" ELSE io[i]

\* the offsets of the words that lie inside a region of n bytes
WordOffsets(n) == {o \in 0 .. MaxPos + WordSize * MaxWords :
                     o % WordSize = 0 /\ o + WordSize <= n}


(***************************************************************************)
(* dev_open.  The VFS has set f_pos to 0 before it calls the handler.      *)
(***************************************************************************)
\* a variant of dev_open without the test of the length
dev_open_any_len(num, bar) ==
  IF num > 5 THEN [rc |-> -ENXIO, pdata |-> "none"]
  ELSE [rc |-> 0, pdata |-> "pchar"]
dev_open(num, bar) ==
  IF num > 5 THEN [rc |-> -ENXIO, pdata |-> "none"]
  ELSE IF bar[num].len = 0 THEN [rc |-> -EIO, pdata |-> "none"]
  ELSE [rc |-> 0, pdata |-> "pchar"]

(***************************************************************************)
(* dev_seek.                                                               *)
(***************************************************************************)
\* the switch on whence
SeekNewPos(whence, offset, f_pos) ==
  CASE whence = SEEK_SET -> offset
    [] whence = SEEK_CUR -> f_pos + offset
    [] OTHER -> -EINVAL

\* "pchar->bar[num].len - 4" in resource_size_t
LenMinus4(len) ==
  IF len >= 4 THEN len - 4 ELSE ResourceSizeMax - (3 - len)

\* "new_pos > pchar->bar[num].len - 4", reached with new_pos >= 0 only
PastEnd(new_pos, len) == new_pos > LenMinus4(len)

\* a variant of the alignment test that lets every position pass
SeekMisaligned_skip(new_pos) == FALSE
\* "new_pos % 4" is nonzero.  (C's % keeps the sign of new_pos; whether the
\* remainder is zero does not depend on that.)
SeekMisaligned(new_pos) == new_pos % 4 # 0

\* the result: the value returned and the f_pos the file is left with
dev_seek(len, f_pos, offset, whence) ==
  LET new_pos == SeekNewPos(whence, offset, f_pos) IN
  IF SeekMisaligned(new_pos) THEN [rc |-> -EINVAL, f_pos |-> f_pos]
  ELSE IF new_pos < 0 \/ PastEnd(new_pos, len)
       THEN [rc |-> -EINVAL, f_pos |-> f_pos]
       ELSE [rc |-> new_pos, f_pos |-> new_pos]

(***************************************************************************)
(* Register access.  m is the memory the base pointer leads to: the words  *)
(* of the region when the mapping is live, nothing otherwise.  A load from *)
(* outside m gives whatever is there (g); a store outside m lands outside  *)
(* the region.                                                             *)
(***************************************************************************)
NoMemory == [o \in {} |-> 0]
readl(m, offset, g) == IF offset \in DOMAIN m THEN m[offset] ELSE g
writel(m, offset, data) ==
  IF offset \in DOMAIN m THEN [m EXCEPT ![offset] = data] ELSE m

\* the conversion of a non-negative loff_t to u32: the low 32 bits, taken in
\* 16 bit halves so that no intermediate value leaves TLC's integers
U32(x) == (x % 65536) + 65536 * ((x \div 65536) % 65536)

\* a variant of dev_read's offset that ignores *ppos
ReadOffset_zero(ppos) == 0
\* "u32 offset = *ppos"
ReadOffset(ppos) == U32(ppos)
WriteOffset(ppos) == U32(ppos)

\* a variant of the return value that lets the error win
Transferred_err(bytes, err) == IF err # 0 THEN err ELSE bytes
\* "return bytes ? bytes : err"
Transferred(bytes, err) == IF bytes # 0 THEN bytes ELSE err

\* "if (count % 4) return -EINVAL"
CountMisaligned(count) == count % 4 # 0

(***************************************************************************)
(* dev_read.  fault is the index of the word at which copy_to_user fails   *)
(* (an index the loop does not reach: no fault).  acc lists the offsets of *)
(* the loads, data the words copied out.                                   *)
(***************************************************************************)
RECURSIVE ReadLoop(_, _, _, _, _, _, _)
ReadLoop(m, offset, count, fault, g, acc, data) ==
  IF count = 0 THEN [bytes |-> 4 * Len(data), err |-> 0, acc |-> acc, data |-> data]
  ELSE LET w == readl(m, offset, g)
           acc1 == Append(acc, offset) IN
       IF Len(data) = fault
       THEN [bytes |-> 4 * Len(data), err |-> -EFAULT, acc |-> acc1, data |-> data]
       ELSE ReadLoop(m, offset, count - 4, fault, g, acc1, Append(data, w))

\* a variant of dev_read without the test of count: the words that fit are
\* transferred
dev_read_whole_words(m, ppos, count, fault, g) ==
  LET r == ReadLoop(m, ReadOffset(ppos), count - (count % 4), fault, g, <<>>, <<>>) IN
  [rc |-> Transferred(r.bytes, r.err), ppos |-> ppos,
   acc |-> r.acc, data |-> r.data, m |-> m]

dev_read(m, ppos, count, fault, g) ==
  IF CountMisaligned(count)
  THEN [rc |-> -EINVAL, ppos |-> ppos, acc |-> <<>>, data |-> <<>>, m |-> m]
  ELSE LET r == ReadLoop(m, ReadOffset(ppos), count, fault, g, <<>>, <<>>) IN
       [rc |-> Transferred(r.bytes, r.err), ppos |-> ppos,
        acc |-> r.acc, data |-> r.data, m |-> m]

(***************************************************************************)
(* dev_write.  buf holds the words of the caller's buffer; fault is the    *)
(* index of the word at which copy_from_user fails.  acc lists the offsets *)
(* of the stores, data the words stored.                                   *)
(***************************************************************************)
RECURSIVE WriteLoop(_, _, _, _, _, _, _)
WriteLoop(m, offset, count, fault, buf, acc, data) ==
  IF count = 0
  THEN [bytes |-> 4 * Len(data), err |-> 0, acc |-> acc, data |-> data, m |-> m]
  ELSE IF Len(data) = fault
       THEN [bytes |-> 4 * Len(data), err |-> -EFAULT, acc |-> acc,
             data |-> data, m |-> m]
       ELSE LET w == buf[Len(data) + 1] IN
            WriteLoop(writel(m, offset, w), offset, count - 4, fault, buf,
                      Append(acc, offset), Append(data, w))

dev_write(m, ppos, count, fault, buf) ==
  IF CountMisaligned(count)
  THEN [rc |-> -EINVAL, ppos |-> ppos, acc |-> <<>>, data |-> <<>>, m |-> m]
  ELSE LET r == WriteLoop(m, WriteOffset(ppos), count, fault, buf, <<>>, <<>>) IN
       [rc |-> Transferred(r.bytes, r.err), ppos |-> ppos,
        acc |-> r.acc, data |-> r.data, m |-> r.m]


(***************************************************************************)
(* pci_probe and pci_remove.                                               *)
(*                                                                         *)
(* k holds struct pci_char (alloc: it is allocated; bar) and the kernel    *)
(* objects of the device: enabled (pci_enable_device_mem), requested       *)
(* (pci_request_selected_regions), mapped (the BARs with a live ioremap    *)
(* mapping), chrdev (the char device number range), cdev (cdev_add done),  *)
(* nodes (the minors with a device created), drvdata (pci_set_drvdata) and *)
(* bound (the PCI core has the driver bound to the device: probe returned  *)
(* 0 and remove has not run).                                              *)
(***************************************************************************)
\* a struct bar_t of memory that kmalloc returned and nobody wrote
UninitBar == [len |-> -1, addr |-> "uninit"]

Unbound == [alloc |-> FALSE, bar |-> [i \in Bars |-> UninitBar],
            enabled |-> FALSE, requested |-> FALSE, mapped |-> {},
            chrdev |-> FALSE, cdev |-> FALSE, nodes |-> {},
            drvdata |-> "null", bound |-> FALSE]

\* the BARs an "if (pchar->bar[i].len)" loop over the indices in S acts on
InUse(bar, S) == {i \in S : bar[i].len # 0}

\* the for loop that maps the BARs, from index i on
RECURSIVE MapLoop(_, _, _, _)
MapLoop(bar, mapped, i, io) ==
  IF i >= NumBars THEN [bar |-> bar, mapped |-> mapped, err |-> 0, i |-> i]
  ELSE IF i \in pci_select_bars
       THEN LET a == ioremap(i, io)
                bar1 == [bar EXCEPT ![i].addr = a] IN
            IF IS_ERR(a)
            THEN [bar |-> bar1, mapped |-> mapped, err |-> -ENOMEM, i |-> i]
            ELSE MapLoop([bar1 EXCEPT ![i].len = pci_resource_len(i)],
                         IF a = "iomem" THEN mapped \cup {i} ELSE mapped,
                         i + 1, io)
       ELSE MapLoop([bar EXCEPT ![i] = [len |-> 0, addr |-> "null"]],
                    mapped, i + 1, io)

\* the for loop that creates the device nodes, from index i on; device_create
\* fails at index cf
RECURSIVE CreateLoop(_, _, _, _)
CreateLoop(bar, nodes, i, cf) ==
  IF i >= NumBars THEN [nodes |-> nodes, err |-> 0, i |-> i]
  ELSE IF bar[i].len # 0
       THEN IF i = cf THEN [nodes |-> nodes, err |-> -ENOMEM, i |-> i]
            ELSE CreateLoop(bar, nodes \cup {i}, i + 1, cf)
       ELSE CreateLoop(bar, nodes, i + 1, cf)

\* the failure labels, each falling through to the next
failure_pci_enable(kx) ==
  [kx EXCEPT !.alloc = FALSE, !.bar = [i \in Bars |-> UninitBar]]
failure_pci_regions(kx) ==
  failure_pci_enable([kx EXCEPT !.enabled = FALSE])
failure_ioremap(kx) ==
  failure_pci_regions([kx EXCEPT !.requested = FALSE])
failure_alloc_chrdev_region(kx) ==
  failure_ioremap([kx EXCEPT !.mapped = @ \ InUse(kx.bar, Bars)])
failure_cdev_add(kx) ==
  failure_alloc_chrdev_region([kx EXCEPT !.chrdev = FALSE])
failure_device_create(kx) ==
  failure_cdev_add([kx EXCEPT !.cdev = FALSE])

\* the kernel calls of pci_probe that can fail once; "none": none of them does
ProbeFaults == {"none", "kmalloc", "pci_enable_device_mem",
                "pci_request_selected_regions", "alloc_chrdev_region",
                "cdev_add"}

\* pci_probe on the device state k0: fault is the call that fails, io what
\* ioremap returns for each BAR, cf the index at which device_create fails
pci_probe(k0, fault, io, cf) ==
  IF fault = "kmalloc" THEN [k |-> k0, err |-> -ENOMEM]
  ELSE LET k1 == [k0 EXCEPT !.alloc = TRUE] IN
  IF fault = "pci_enable_device_mem"
  THEN [k |-> failure_pci_enable(k1), err |-> -EIO]
  ELSE LET k2 == [k1 EXCEPT !.enabled = TRUE] IN
  IF fault = "pci_request_selected_regions"
  THEN [k |-> failure_pci_regions(k2), err |-> -EIO]
  ELSE LET k3 == [k2 EXCEPT !.requested = TRUE]
           ml == MapLoop(k3.bar, k3.mapped, 0, io) IN
  IF ml.err # 0
  THEN [k |-> failure_ioremap(
                [k3 EXCEPT !.bar = ml.bar,
                           !.mapped = ml.mapped \ InUse(ml.bar, 0 .. ml.i - 1)]),
        err |-> ml.err]
  ELSE LET k4 == [k3 EXCEPT !.bar = ml.bar, !.mapped = ml.mapped] IN
  IF fault = "alloc_chrdev_region"
  THEN [k |-> failure_alloc_chrdev_region(k4), err |-> -ENOMEM]
  ELSE LET k5 == [k4 EXCEPT !.chrdev = TRUE] IN
  IF fault = "cdev_add"
  THEN [k |-> failure_cdev_add(k5), err |-> -ENOMEM]
  ELSE LET k6 == [k5 EXCEPT !.cdev = TRUE]
           cl == CreateLoop(k6.bar, k6.nodes, 0, cf) IN
  IF cl.err # 0
  THEN [k |-> failure_device_create(
                [k6 EXCEPT !.nodes = cl.nodes \ InUse(k6.bar, 0 .. cl.i - 1)]),
        err |-> cl.err]
  ELSE [k |-> [k6 EXCEPT !.nodes = cl.nodes, !.drvdata = "pchar"], err |-> 0]

\* pci_remove on the device state k0; the structure drvdata pointed to is
\* freed and the pointer is left in place
pci_remove(k0) ==
  [k0 EXCEPT !.nodes = @ \ InUse(k0.bar, Bars),
             !.cdev = FALSE,
             !.chrdev = FALSE,
             !.mapped = @ \ InUse(k0.bar, Bars),
             !.requested = FALSE,
             !.enabled = FALSE,
             !.alloc = FALSE,
             !.bar = [i \in Bars |-> UninitBar],
             !.drvdata = "dangling"]


(***************************************************************************)
(* State and history.                                                      *)
(***************************************************************************)
Closed == [open |-> FALSE, num |-> 0, f_pos |-> 0, pdata |-> "none"]

\* the record of a call: op, the file and its minor, whether private_data
\* led to the live structure (live), the len and the validity of the base the
\* handler read (len, based), f_pos before the call (pre), the argument (arg:
\* the count), whence and the new position computed (seek), the index of the
\* word at which the copy faulted (fault, -1: none), the value returned (rc),
\* the offsets of the loads or stores (acc), the words moved (data) and the
\* value of wr when the call was made (wr).
NoCall == [op |-> "none", file |-> 0, num |-> 0, live |-> FALSE, len |-> 0,
           based |-> FALSE, pre |-> 0, arg |-> 0, whence |-> 0, target |-> 0,
           fault |-> -1, rc |-> 0, acc |-> <<>>, data |-> <<>>, wr |-> <<>>]

\* the transfer sizes asked for: none, one word, two words, the largest, and
\* the largest plus 2 bytes
Counts == {0, WordSize, 2 * WordSize, WordSize * MaxWords,
           WordSize * MaxWords + 2}
\* the word at which the copy from or to the caller's buffer faults: the
\* first, the second, none
FaultAt == {0, 1, MaxWords}
\* the caller's buffers for write: the two data words in turn
UserBufs == {[j \in 1 .. MaxWords + 1 |-> 1 + ((j + s) % 2)] : s \in 0 .. 1}
\* the offsets seeks are issued with: misaligned, negative, and the aligned
\* ones up to MaxPos
SeekOffsets == {-WordSize, -3, 2, MaxPos - 3}
                 \cup {o \in 0 .. MaxPos : o % WordSize = 0}
\* the two the switch has a case for, and one it has none for
Whences == {SEEK_SET, SEEK_CUR, SEEK_CUR + 1}
\* what a read through a pointer into freed memory can find as len
GarbageLens == {4}

\* the threads that can be inside dev_seek on the same struct file
NumThreads == 2
Threads == 1 .. NumThreads
\* how often pci_remove is called for one binding of the device
MaxRemoves == 2

\* a kernel call the driver makes, and the BAR it is made for (-1: for none)
Call(name, i) == [call |-> name, i |-> i]
NoStep == Call("none", -1)

\* the pci_probe or pci_remove call in progress: which one (call), the
\* statement it is at (pc; "done": it has returned), the locals i and err,
\* the kernel calls that fail in it (fault, io, cf as for pci_probe above) and
\* the first call that did fail (failed).  dangling: pchar points to freed
\* memory, and view is what the call reads there (before that: what the
\* structure held when it was freed, if it was).  removes counts the
\* pci_remove calls since the last pci_probe.  acq and rel are history: the
\* acquiring calls that succeeded in the last pci_probe, and the releasing
\* calls made since it began.
NoDriverCall ==
  [call |-> "none", pc |-> "done", i |-> 0, err |-> 0,
   fault |-> "none", io |-> <<>>, cf |-> NumBars, failed |-> NoStep,
   dangling |-> FALSE, view |-> <<>>, removes |-> 0,
   acq |-> <<>>, rel |-> <<>>]

\* a dev_seek call of one thread: the statement it is at (pc; "idle": the
\* thread is not in dev_seek), its arguments, its local new_pos, and the
\* value it returned (rc).  base is history: the position of the file when
\* the first of the calls that overlap with this one was made.
NoSeek == [pc |-> "idle", offset |-> 0, whence |-> 0, new_pos |-> 0, rc |-> 0,
           base |-> 0]
NoThreads == [t \in Threads |-> NoSeek]

Init ==
  /\ res \in Devices
  /\ k = Unbound
  /\ mem = [i \in Bars |->
              IF res[i].mem THEN [o \in WordOffsets(res[i].len) |-> 0]
              ELSE NoMemory]
  /\ files = [f \in Files |-> Closed]
  /\ last = NoCall
  /\ wr = <<>>
  /\ drv = NoDriverCall
  /\ thr = NoThreads

\* what the ioremap calls of one pci_probe return: at most one of them fails
IoremapOutcomes ==
  {io \in [{i \in pci_select_bars : pci_resource_len(i) # 0} -> IoremapResults] :
     Cardinality({i \in DOMAIN io : io[i] = "null"}) <= 1}

\* no call is returning: the next one can be made
Idle == last.op = "none"

\* the PCI core calls pci_probe for a device no driver is bound to
Probe ==
  /\ Idle
  /\ ~k.bound
  /\ \E fault \in ProbeFaults, cf \in 0 .. NumBars, io \in IoremapOutcomes :
       /\ cf # NumBars => fault = "none"
       /\ LET r == pci_probe(k, fault, io, cf) IN
          /\ k' = [r.k EXCEPT !.bound = (r.err = 0)]
          /\ last' = [NoCall EXCEPT !.op = "probe", !.rc = r.err]
  /\ wr' = <<>>
  /\ UNCHANGED <<res, mem, files, drv, thr>>

\* the PCI core calls pci_remove when the driver is unbound from the device;
\* open files are left as they are, their private_data dangling
Remove ==
  /\ Idle
  /\ k.bound
  /\ k' = [pci_remove(k) EXCEPT !.bound = FALSE]
  /\ files' = [f \in Files |->
                 IF files[f].open THEN [files[f] EXCEPT !.pdata = "dangling"]
                 ELSE files[f]]
  /\ last' = [NoCall EXCEPT !.op = "remove"]
  /\ wr' = <<>>
  /\ UNCHANGED <<res, mem, drv, thr>>

\* open(2) of a character device node of the device: chrdev_open finds the
\* cdev for the minors 0..5 once cdev_add has run
Open(f, num) ==
  /\ Idle
  /\ ~files[f].open
  /\ k.cdev
  /\ LET r == dev_open(num, k.bar) IN
     /\ files' = [files EXCEPT ![f] =
                    IF r.rc = 0
                    THEN [open |-> TRUE, num |-> num, f_pos |-> 0,
                          pdata |-> r.pdata]
                    ELSE Closed]
     /\ last' = [NoCall EXCEPT !.op = "open", !.file = f, !.num = num,
                               !.rc = r.rc]
  /\ wr' = <<>>
  /\ UNCHANGED <<res, k, mem, drv, thr>>

\* close(2): the driver has no release handler
Close(f) ==
  /\ Idle
  /\ files[f].open
  /\ files' = [files EXCEPT ![f] = Closed]
  /\ last' = [NoCall EXCEPT !.op = "close", !.file = f]
  /\ wr' = <<>>
  /\ UNCHANGED <<res, k, mem, drv, thr>>

\* what the handlers find through file->private_data
Live(f) == files[f].pdata = "pchar"
SeenLens(f) == IF Live(f) THEN {k.bar[files[f].num].len} ELSE GarbageLens
Based(f) == Live(f) /\ k.bar[files[f].num].addr = "iomem"
SeenMemory(f) ==
  IF Live(f)
  THEN {IF Based(f) THEN mem[files[f].num] ELSE NoMemory}
  ELSE {NoMemory, mem[files[f].num]}

\* the index of the word at which a transfer of count bytes faults; -1: the
\* loop ends before it gets there
FaultIndex(count, fault) ==
  IF count % 4 = 0 /\ fault < count \div 4 THEN fault ELSE -1

\* wr stays the last register access over a seek or a read of its file
KeepWr(f) == IF wr # <<>> /\ wr[1] = f THEN wr ELSE <<>>

\* a variant in which the position is kept per device node, for all the
\* files open on it
StorePos_per_node(fs, f, pos) ==
  [g \in DOMAIN fs |->
     IF fs[g].open /\ fs[g].num = fs[f].num THEN [fs[g] EXCEPT !.f_pos = pos]
     ELSE fs[g]]
\* "file->f_pos = new_pos": the position is a field of the struct file
StorePos(fs, f, pos) == [fs EXCEPT ![f].f_pos = pos]

\* lseek(2)
Seek(f, offset, whence) ==
  /\ Idle
  /\ files[f].open
  /\ (whence \in {SEEK_SET, SEEK_CUR} =>
        SeekNewPos(whence, offset, files[f].f_pos) \in (-MaxPos) .. MaxPos)
  /\ whence \notin {SEEK_SET, SEEK_CUR} => offset = 0
  /\ \E len \in SeenLens(f) :
       LET r == dev_seek(len, files[f].f_pos, offset, whence) IN
       /\ files' = StorePos(files, f, r.f_pos)
       /\ last' = [NoCall EXCEPT !.op = "seek", !.file = f,
                     !.num = files[f].num, !.live = Live(f), !.len = len,
                     !.pre = files[f].f_pos, !.whence = whence,
                     !.target = SeekNewPos(whence, offset, files[f].f_pos),
                     !.rc = r.rc]
  /\ wr' = KeepWr(f)
  /\ UNCHANGED <<res, k, mem, drv, thr>>

\* read(2): the VFS passes a copy of f_pos and stores it back
Read(f, count, fault) ==
  /\ Idle
  /\ files[f].open
  /\ \E m \in SeenMemory(f) :
     \E g \in IF ReadOffset(files[f].f_pos) \in DOMAIN m THEN {0} ELSE Words :
       LET r == dev_read(m, files[f].f_pos, count, fault, g) IN
       /\ files' = [files EXCEPT ![f].f_pos = r.ppos]
       /\ last' = [NoCall EXCEPT !.op = "read", !.file = f,
                     !.num = files[f].num, !.live = Live(f),
                     !.len = IF Live(f) THEN k.bar[files[f].num].len ELSE 0,
                     !.based = Based(f), !.pre = files[f].f_pos,
                     !.arg = count,
                     !.fault = FaultIndex(count, fault),
                     !.rc = r.rc, !.acc = r.acc, !.data = r.data,
                     !.wr = KeepWr(f)]
  /\ wr' = KeepWr(f)
  /\ UNCHANGED <<res, k, mem, drv, thr>>

\* write(2)
Write(f, count, fault, buf) ==
  /\ Idle
  /\ files[f].open
  /\ \E m \in SeenMemory(f) :
       LET r == dev_write(m, files[f].f_pos, count, fault, buf)
           hit == m # NoMemory IN
       /\ files' = [files EXCEPT ![f].f_pos = r.ppos]
       /\ mem' = IF hit THEN [mem EXCEPT ![files[f].num] = r.m] ELSE mem
       /\ last' = [NoCall EXCEPT !.op = "write", !.file = f,
                     !.num = files[f].num, !.live = Live(f),
                     !.len = IF Live(f) THEN k.bar[files[f].num].len ELSE 0,
                     !.based = Based(f), !.pre = files[f].f_pos,
                     !.arg = count,
                     !.fault = FaultIndex(count, fault),
                     !.rc = r.rc, !.acc = r.acc, !.data = r.data]
       /\ wr' = IF Live(f) /\ count = 4 /\ r.rc = 4
                THEN <<f, files[f].num, r.acc[1], r.data[1]>>
                ELSE <<>>
  /\ UNCHANGED <<res, k, drv, thr>>

\* the call returns to its caller; its record is dropped
Return ==
  /\ ~Idle
  /\ last' = NoCall
  /\ UNCHANGED <<res, k, mem, files, wr, drv, thr>>

Next ==
  \/ Probe
  \/ Remove
  \/ \E f \in Files, num \in 0 .. NumBars : Open(f, num)
  \/ \E f \in Files : Close(f)
  \/ \E f \in Files, offset \in SeekOffsets, whence \in Whences :
       Seek(f, offset, whence)
  \/ \E f \in Files, count \in Counts, fault \in FaultAt :
       Read(f, count, fault)
  \/ \E f \in Files, count \in Counts, fault \in FaultAt, buf \in UserBufs :
       Write(f, count, fault, buf)
  \/ Return

Spec == Init /\ [][Next]_vars

(***************************************************************************)
(* SpecSessions: the device is attached, every ioremap having succeeded,   *)
(* and several files are opened on its nodes.                              *)
(***************************************************************************)
Sessions == 1 .. (NumFiles + 1)

\* k once pci_probe has returned 0 with every BAR mapped
Attached ==
  LET io == [i \in {j \in pci_select_bars : pci_resource_len(j) # 0} |-> "iomem"]
      r == pci_probe(Unbound, "none", io, NumBars) IN
  [r.k EXCEPT !.bound = TRUE]

InitSessions ==
  /\ res = DeviceA
  /\ k = Attached
  /\ mem = [i \in Bars |->
              IF res[i].mem THEN [o \in WordOffsets(res[i].len) |-> 0]
              ELSE NoMemory]
  /\ files = [f \in Sessions |-> Closed]
  /\ last = NoCall
  /\ wr = <<>>
  /\ drv = NoDriverCall
  /\ thr = NoThreads

NextSessions ==
  \/ \E f \in Sessions, num \in 0 .. NumBars : Open(f, num)
  \/ \E f \in Sessions : Close(f)
  \/ \E f \in Sessions, offset \in SeekOffsets, whence \in Whences :
       Seek(f, offset, whence)
  \/ \E f \in Sessions, count \in Counts, fault \in FaultAt :
       Read(f, count, fault)
  \/ \E f \in Sessions, count \in Counts, fault \in FaultAt, buf \in UserBufs :
       Write(f, count, fault, buf)
  \/ Return

SpecSessions == InitSessions /\ [][NextSessions]_vars

\* C15: with two files open on the same device node, a seek, a read or a
\* write on one of them leaves the position of the other as it was.
C15_SessionIndependence ==
  [][\A f \in DOMAIN files :
       /\ last'.op \in {"seek", "read", "write"}
       /\ last'.file # f
       /\ files[f].open /\ files[last'.file].open
       /\ files[f].num = files[last'.file].num
       => files'[f].f_pos = files[f].f_pos]_vars
C15_Witness ==
  /\ last.op = "seek" /\ last.file = 1 /\ last.rc = WordSize /\ last.pre = 0
  /\ files[1].open /\ files[2].open
  /\ files[1].num = files[2].num
  /\ files[1].f_pos = WordSize /\ files[2].f_pos = 0

(***************************************************************************)
(* SpecRace: dev_seek one statement at a time, called by several threads   *)
(* on the same struct file (a file descriptor the threads of a process     *)
(* share).  The device is attached and the file is open on BAR 0.          *)
(***************************************************************************)
InitRace ==
  /\ res = DeviceC
  /\ k = Attached
  /\ mem = [i \in Bars |->
              IF res[i].mem THEN [o \in WordOffsets(res[i].len) |-> 0]
              ELSE NoMemory]
  /\ files = [f \in Files |->
                IF f = 1 THEN [open |-> TRUE, num |-> 0, f_pos |-> 0,
                               pdata |-> dev_open(0, k.bar).pdata]
                ELSE Closed]
  /\ last = NoCall
  /\ wr = <<>>
  /\ drv = NoDriverCall
  /\ thr = NoThreads

\* what a step of dev_seek leaves alone, but for files
SeekFrame == UNCHANGED <<res, k, mem, last, wr, drv>>
\* some thread is between mutex_lock and mutex_unlock of the inode's i_mutex
MutexHeld == \E u \in Threads : thr[u].pc = "switch"

\* thread t calls lseek(2) on the file f
SeekCall(t, f, offset, whence) ==
  /\ files[f].open
  /\ thr[t].pc = "idle"
  /\ whence \notin {SEEK_SET, SEEK_CUR} => offset = 0
  /\ LET busy == {u \in Threads : thr[u].pc # "idle"}
         base == IF busy = {} THEN files[f].f_pos
                 ELSE thr[CHOOSE u \in busy : TRUE].base IN
     thr' = [thr EXCEPT ![t] = [pc |-> "mutex_lock", offset |-> offset,
                                whence |-> whence, new_pos |-> 0, rc |-> 0,
                                base |-> base]]
  /\ UNCHANGED files
  /\ SeekFrame

\* mutex_lock(&inode->i_mutex)
SeekLock(t) ==
  /\ thr[t].pc = "mutex_lock"
  /\ ~MutexHeld
  /\ thr' = [thr EXCEPT ![t].pc = "switch"]
  /\ UNCHANGED files
  /\ SeekFrame

\* the switch on whence, which reads file->f_pos, and mutex_unlock
SeekSwitch(t, f) ==
  /\ files[f].open
  /\ thr[t].pc = "switch"
  /\ thr' = [thr EXCEPT ![t].new_pos =
                          SeekNewPos(thr[t].whence, thr[t].offset, files[f].f_pos),
                        ![t].pc = "check"]
  /\ UNCHANGED files
  /\ SeekFrame

\* the two tests of new_pos and "file->f_pos = new_pos"
SeekStore(t, f) ==
  /\ files[f].open
  /\ thr[t].pc = "check"
  /\ LET new_pos == thr[t].new_pos IN
     IF SeekMisaligned(new_pos)
        \/ new_pos < 0 \/ PastEnd(new_pos, k.bar[files[f].num].len)
     THEN /\ thr' = [thr EXCEPT ![t].rc = -EINVAL, ![t].pc = "done"]
          /\ UNCHANGED files
     ELSE /\ files' = StorePos(files, f, new_pos)
          /\ thr' = [thr EXCEPT ![t].pc = "return"]
  /\ SeekFrame

\* "return file->f_pos"
SeekReturn(t, f) ==
  /\ files[f].open
  /\ thr[t].pc = "return"
  /\ thr' = [thr EXCEPT ![t].rc = files[f].f_pos, ![t].pc = "done"]
  /\ UNCHANGED files
  /\ SeekFrame

AllReturned == \A t \in Threads : thr[t].pc = "done"
\* every thread has its result; the threads go on to their next calls
SeekRoundEnd ==
  /\ AllReturned
  /\ thr' = NoThreads
  /\ UNCHANGED files
  /\ SeekFrame

NextRace ==
  \/ \E t \in Threads, f \in Files, offset \in SeekOffsets, whence \in Whences :
       SeekCall(t, f, offset, whence)
  \/ \E t \in Threads : SeekLock(t)
  \/ \E t \in Threads, f \in Files : SeekSwitch(t, f)
  \/ \E t \in Threads, f \in Files : SeekStore(t, f)
  \/ \E t \in Threads, f \in Files : SeekReturn(t, f)
  \/ SeekRoundEnd

SpecRace == InitRace /\ [][NextRace]_vars

\* the orders in which the threads can make their calls one after the other
Orders ==
  {o \in [1 .. NumThreads -> Threads] :
     \A a, b \in 1 .. NumThreads : a # b => o[a] # o[b]}
\* the seeks of the threads made one after the other in the order o, from
\* its index j on, on a file at position pos: the position the file is left
\* with and the value each call returns
RECURSIVE SeqSeeks(_, _, _, _, _)
SeqSeeks(o, j, len, pos, rcs) ==
  IF j > NumThreads THEN [f_pos |-> pos, rc |-> rcs]
  ELSE LET t == o[j]
           r == dev_seek(len, pos, thr[t].offset, thr[t].whence) IN
       SeqSeeks(o, j + 1, len, r.f_pos, [rcs EXCEPT ![t] = r.rc])

\* C17: when seeks made by several threads on one open file overlap, the
\* position the file is left with and the values the calls return are those
\* of the same seeks made one after the other in some order.
C17_SeeksSerialized ==
  AllReturned =>
    \A f \in Files :
      files[f].open =>
        \E o \in Orders :
          LET base == thr[o[1]].base
              s == SeqSeeks(o, 1, k.bar[files[f].num].len, base,
                            [t \in Threads |-> 0]) IN
          /\ files[f].f_pos = s.f_pos
          /\ \A t \in Threads : thr[t].rc = s.rc[t]

(***************************************************************************)
(* pci_probe, one kernel call at a time.  SpecDriver runs it, and          *)
(* pci_remove below, next to open(2) and close(2) of the device nodes.     *)
(***************************************************************************)
InProbe(label) == drv.call = "probe" /\ drv.pc = label
\* what a step of the driver call leaves alone
DriverFrame == UNCHANGED <<res, mem, files, last, wr, thr>>

Goto(d, label) == [d EXCEPT !.pc = label]
Acquired(d, name, i) == [d EXCEPT !.acq = Append(@, Call(name, i))]
Released(d, name, i) == [d EXCEPT !.rel = Append(@, Call(name, i))]
\* the kernel call name, made for BAR i, fails
Failing(d, name, i) ==
  [d EXCEPT !.failed = IF @ = NoStep THEN Call(name, i) ELSE @]

\* the struct pci_char the call reads through its pointer pchar
Pchar == IF drv.dangling THEN drv.view ELSE k.bar

\* the body of the for loop that maps the BARs, for index i
MapBody(bar, mapped, i, io) ==
  IF i \in pci_select_bars
  THEN LET a == ioremap(i, io)
           bar1 == [bar EXCEPT ![i].addr = a] IN
       IF IS_ERR(a)
       THEN [bar |-> bar1, mapped |-> mapped, err |-> -ENOMEM]
       ELSE [bar |-> [bar1 EXCEPT ![i].len = pci_resource_len(i)],
             mapped |-> IF a = "iomem" THEN mapped \cup {i} ELSE mapped,
             err |-> 0]
  ELSE [bar |-> [bar EXCEPT ![i] = [len |-> 0, addr |-> "null"]],
        mapped |-> mapped, err |-> 0]

\* the PCI core calls pci_probe for a device no driver is bound to
ProbeCall ==
  /\ drv.pc = "done"
  /\ ~k.bound
  /\ \E fault \in ProbeFaults, cf \in 0 .. NumBars, io \in IoremapOutcomes :
       /\ cf # NumBars => fault = "none"
       /\ drv' = [NoDriverCall EXCEPT !.call = "probe", !.pc = "kmalloc",
                                      !.fault = fault, !.io = io, !.cf = cf]
  /\ UNCHANGED k
  /\ DriverFrame

Kmalloc ==
  /\ InProbe("kmalloc")
  /\ IF drv.fault = "kmalloc"
     THEN /\ drv' = Goto(Failing([drv EXCEPT !.err = -ENOMEM], "kmalloc", -1),
                         "failure_kmalloc")
          /\ UNCHANGED k
     ELSE /\ k' = [k EXCEPT !.alloc = TRUE]
          /\ drv' = Goto(Acquired(drv, "kmalloc", -1), "pci_enable_device_mem")
  /\ DriverFrame

EnableDevice ==
  /\ InProbe("pci_enable_device_mem")
  /\ IF drv.fault = "pci_enable_device_mem"
     THEN /\ drv' = Goto(Failing([drv EXCEPT !.err = -EIO],
                                 "pci_enable_device_mem", -1),
                         "failure_pci_enable")
          /\ UNCHANGED k
     ELSE /\ k' = [k EXCEPT !.enabled = TRUE]
          /\ drv' = Goto(Acquired(drv, "pci_enable_device_mem", -1),
                         "pci_request_selected_regions")
  /\ DriverFrame

RequestRegions ==
  /\ InProbe("pci_request_selected_regions")
  /\ IF drv.fault = "pci_request_selected_regions"
     THEN /\ drv' = Goto(Failing([drv EXCEPT !.err = -EIO],
                                 "pci_request_selected_regions", -1),
                         "failure_pci_regions")
          /\ UNCHANGED k
     ELSE /\ k' = [k EXCEPT !.requested = TRUE]
          /\ drv' = Goto(Acquired([drv EXCEPT !.i = 0],
                                  "pci_request_selected_regions", -1),
                         "ioremap")
  /\ DriverFrame

\* the loop that maps the BARs and the loop that unmaps them again when
\* IS_ERR was true of a mapping, one iteration at a time
MapBar ==
  /\ drv.call = "probe"
  /\ \/ /\ drv.pc = "ioremap"
        /\ IF drv.i < NumBars
           THEN LET b == MapBody(k.bar, k.mapped, drv.i, drv.io)
                    a == b.bar[drv.i].addr
                    d == IF a = "iomem" THEN Acquired(drv, "ioremap", drv.i)
                         ELSE IF drv.i \in DOMAIN drv.io
                              THEN Failing(drv, "ioremap", drv.i)
                              ELSE drv IN
                /\ k' = [k EXCEPT !.bar = b.bar, !.mapped = b.mapped]
                /\ drv' = IF b.err # 0
                          THEN Goto([d EXCEPT !.err = b.err], "ioremap_rollback")
                          ELSE [d EXCEPT !.i = @ + 1]
           ELSE /\ drv' = Goto(drv, "alloc_chrdev_region")
                /\ UNCHANGED k
     \/ /\ drv.pc = "ioremap_rollback"
        /\ IF drv.i - 1 >= 0
           THEN LET j == drv.i - 1 IN
                IF Pchar[j].len # 0
                THEN /\ k' = [k EXCEPT !.mapped = @ \ {j}]
                     /\ drv' = Released([drv EXCEPT !.i = j], "iounmap", j)
                ELSE /\ drv' = [drv EXCEPT !.i = j]
                     /\ UNCHANGED k
           ELSE /\ drv' = Goto(drv, "failure_ioremap")
                /\ UNCHANGED k
  /\ DriverFrame

AllocChrdevRegion ==
  /\ InProbe("alloc_chrdev_region")
  /\ IF drv.fault = "alloc_chrdev_region"
     THEN /\ drv' = Goto(Failing([drv EXCEPT !.err = -ENOMEM, !.i = 0],
                                 "alloc_chrdev_region", -1),
                         "failure_alloc_chrdev_region")
          /\ UNCHANGED k
     ELSE /\ k' = [k EXCEPT !.chrdev = TRUE]
          /\ drv' = Goto(Acquired(drv, "alloc_chrdev_region", -1), "cdev_add")
  /\ DriverFrame

CdevAdd ==
  /\ InProbe("cdev_add")
  /\ IF drv.fault = "cdev_add"
     THEN /\ drv' = Goto(Failing([drv EXCEPT !.err = -ENOMEM], "cdev_add", -1),
                         "failure_cdev_add")
          /\ UNCHANGED k
     ELSE /\ k' = [k EXCEPT !.cdev = TRUE]
          /\ drv' = Goto(Acquired([drv EXCEPT !.i = 0], "cdev_add", -1),
                         "device_create")
  /\ DriverFrame

\* the loop that creates the device nodes and the loop that destroys them
\* again when device_create failed, one iteration at a time
CreateNode ==
  /\ drv.call = "probe"
  /\ \/ /\ drv.pc = "device_create"
        /\ IF drv.i < NumBars
           THEN IF Pchar[drv.i].len # 0
                THEN IF drv.i = drv.cf
                     THEN /\ drv' = Goto(Failing([drv EXCEPT !.err = -ENOMEM],
                                                 "device_create", drv.i),
                                         "device_create_rollback")
                          /\ UNCHANGED k
                     ELSE /\ k' = [k EXCEPT !.nodes = @ \cup {drv.i}]
                          /\ drv' = Acquired([drv EXCEPT !.i = @ + 1],
                                             "device_create", drv.i)
                ELSE /\ drv' = [drv EXCEPT !.i = @ + 1]
                     /\ UNCHANGED k
           ELSE /\ drv' = Goto(drv, "pci_set_drvdata")
                /\ UNCHANGED k
     \/ /\ drv.pc = "device_create_rollback"
        /\ IF drv.i - 1 >= 0
           THEN LET j == drv.i - 1 IN
                IF Pchar[j].len # 0
                THEN /\ k' = [k EXCEPT !.nodes = @ \ {j}]
                     /\ drv' = Released([drv EXCEPT !.i = j], "device_destroy", j)
                ELSE /\ drv' = [drv EXCEPT !.i = j]
                     /\ UNCHANGED k
           ELSE /\ drv' = Goto(drv, "failure_device_create")
                /\ UNCHANGED k
  /\ DriverFrame

\* pci_set_drvdata and "return 0": the PCI core binds the driver
SetDrvdata ==
  /\ InProbe("pci_set_drvdata")
  /\ k' = [k EXCEPT !.drvdata = "pchar", !.bound = TRUE]
  /\ drv' = Goto(drv, "done")
  /\ DriverFrame

FailureDeviceCreate ==
  /\ InProbe("failure_device_create")
  /\ k' = [k EXCEPT !.cdev = FALSE]
  /\ drv' = Goto(Released(drv, "cdev_del", -1), "failure_cdev_add")
  /\ DriverFrame

FailureCdevAdd ==
  /\ InProbe("failure_cdev_add")
  /\ k' = [k EXCEPT !.chrdev = FALSE]
  /\ drv' = Goto(Released([drv EXCEPT !.i = 0], "unregister_chrdev_region", -1),
                 "failure_alloc_chrdev_region")
  /\ DriverFrame

\* the loop that unmaps every BAR in use, one iteration at a time
FailureAllocChrdevRegion ==
  /\ InProbe("failure_alloc_chrdev_region")
  /\ IF drv.i < NumBars
     THEN IF Pchar[drv.i].len # 0
          THEN /\ k' = [k EXCEPT !.mapped = @ \ {drv.i}]
               /\ drv' = Released([drv EXCEPT !.i = @ + 1], "iounmap", drv.i)
          ELSE /\ drv' = [drv EXCEPT !.i = @ + 1]
               /\ UNCHANGED k
     ELSE /\ drv' = Goto(drv, "failure_ioremap")
          /\ UNCHANGED k
  /\ DriverFrame

FailureIoremap ==
  /\ InProbe("failure_ioremap")
  /\ k' = [k EXCEPT !.requested = FALSE]
  /\ drv' = Goto(Released(drv, "pci_release_selected_regions", -1),
                 "failure_pci_regions")
  /\ DriverFrame

FailurePciRegions ==
  /\ InProbe("failure_pci_regions")
  /\ k' = [k EXCEPT !.enabled = FALSE]
  /\ drv' = Goto(Released(drv, "pci_disable_device", -1), "failure_pci_enable")
  /\ DriverFrame

\* kfree(pchar): the private_data of the files opened meanwhile is left in
\* place
FailurePciEnable ==
  /\ InProbe("failure_pci_enable")
  /\ k' = [k EXCEPT !.alloc = FALSE, !.bar = [i \in Bars |-> UninitBar]]
  /\ files' = [f \in DOMAIN files |->
                 IF files[f].open THEN [files[f] EXCEPT !.pdata = "dangling"]
                 ELSE files[f]]
  /\ drv' = Goto(Released(drv, "kfree", -1), "failure_kmalloc")
  /\ UNCHANGED <<res, mem, last, wr, thr>>

\* "return err"
FailureKmalloc ==
  /\ InProbe("failure_kmalloc")
  /\ drv' = Goto(drv, "done")
  /\ UNCHANGED k
  /\ DriverFrame


(***************************************************************************)
(* pci_remove, one kernel call at a time.                                  *)
(***************************************************************************)
InRemove(label) == drv.call = "remove" /\ drv.pc = label

\* a variant of the order in which the BARs are unmapped first
RemoveOrder_unmap_first ==
  <<"iounmap", "device_destroy", "cdev_del", "unregister_chrdev_region",
    "pci_release_selected_regions", "pci_disable_device", "kfree">>
\* the statements of pci_remove in the order in which they are written
RemoveOrder ==
  <<"device_destroy", "cdev_del", "unregister_chrdev_region", "iounmap",
    "pci_release_selected_regions", "pci_disable_device", "kfree">>
\* the call moves on from the statement label to the next one, or returns
AfterRemove(d, label) ==
  LET j == CHOOSE n \in DOMAIN RemoveOrder : RemoveOrder[n] = label IN
  [d EXCEPT !.pc = IF j = Len(RemoveOrder) THEN "done" ELSE RemoveOrder[j + 1],
            !.i = 0]

\* what a pci_remove call can read in the struct pci_char once it is freed:
\* the lengths as they were left (stale), or others with all or none in use
FreedViews(stale) ==
  {stale} \cup {[i \in Bars |-> [len |-> g, addr |-> "garbage"]] :
                  g \in GarbageLens \cup {0}}

\* pci_remove is called: by the PCI core when the driver is unbound from the
\* device, and once more for the same binding up to MaxRemoves calls in all;
\* pci_get_drvdata then returns the pointer the first call freed
RemoveCall ==
  /\ drv.pc = "done"
  /\ \/ /\ k.bound
        /\ drv' = [drv EXCEPT !.call = "remove", !.pc = RemoveOrder[1],
                     !.i = 0, !.err = 0, !.dangling = FALSE, !.removes = 1]
     \/ /\ ~k.bound
        /\ k.drvdata = "dangling"
        /\ drv.removes >= 1
        /\ drv.removes < MaxRemoves
        /\ \E view \in FreedViews(drv.view) :
             drv' = [drv EXCEPT !.call = "remove", !.pc = RemoveOrder[1],
                       !.i = 0, !.err = 0, !.dangling = TRUE, !.view = view,
                       !.removes = @ + 1]
  /\ UNCHANGED k
  /\ DriverFrame

\* the loop that destroys the device nodes, one iteration at a time
DestroyNodes ==
  /\ InRemove("device_destroy")
  /\ IF drv.i < NumBars
     THEN IF Pchar[drv.i].len # 0
          THEN /\ k' = [k EXCEPT !.nodes = @ \ {drv.i}]
               /\ drv' = Released([drv EXCEPT !.i = @ + 1],
                                  "device_destroy", drv.i)
          ELSE /\ drv' = [drv EXCEPT !.i = @ + 1]
               /\ UNCHANGED k
     ELSE /\ drv' = AfterRemove(drv, "device_destroy")
          /\ UNCHANGED k
  /\ DriverFrame

CdevDel ==
  /\ InRemove("cdev_del")
  /\ k' = [k EXCEPT !.cdev = FALSE]
  /\ drv' = AfterRemove(Released(drv, "cdev_del", -1), "cdev_del")
  /\ DriverFrame

UnregisterChrdevRegion ==
  /\ InRemove("unregister_chrdev_region")
  /\ k' = [k EXCEPT !.chrdev = FALSE]
  /\ drv' = AfterRemove(Released(drv, "unregister_chrdev_region", -1),
                        "unregister_chrdev_region")
  /\ DriverFrame

\* the loop that unmaps the BARs, one iteration at a time
UnmapBars ==
  /\ InRemove("iounmap")
  /\ IF drv.i < NumBars
     THEN IF Pchar[drv.i].len # 0
          THEN /\ k' = [k EXCEPT !.mapped = @ \ {drv.i}]
               /\ drv' = Released([drv EXCEPT !.i = @ + 1], "iounmap", drv.i)
          ELSE /\ drv' = [drv EXCEPT !.i = @ + 1]
               /\ UNCHANGED k
     ELSE /\ drv' = AfterRemove(drv, "iounmap")
          /\ UNCHANGED k
  /\ DriverFrame

ReleaseRegions ==
  /\ InRemove("pci_release_selected_regions")
  /\ k' = [k EXCEPT !.requested = FALSE]
  /\ drv' = AfterRemove(Released(drv, "pci_release_selected_regions", -1),
                        "pci_release_selected_regions")
  /\ DriverFrame

DisableDevice ==
  /\ InRemove("pci_disable_device")
  /\ k' = [k EXCEPT !.enabled = FALSE]
  /\ drv' = AfterRemove(Released(drv, "pci_disable_device", -1),
                        "pci_disable_device")
  /\ DriverFrame

\* kfree(pchar) and the return: the pointers to the structure, drvdata and
\* the private_data of the open files, are left in place
Kfree ==
  /\ InRemove("kfree")
  /\ k' = [k EXCEPT !.alloc = FALSE, !.bar = [i \in Bars |-> UninitBar],
                    !.drvdata = "dangling", !.bound = FALSE]
  /\ files' = [f \in DOMAIN files |->
                 IF files[f].open THEN [files[f] EXCEPT !.pdata = "dangling"]
                 ELSE files[f]]
  /\ drv' = AfterRemove(
              Released([drv EXCEPT !.view = IF drv.dangling THEN @ ELSE k.bar],
                       "kfree", -1),
              "kfree")
  /\ UNCHANGED <<res, mem, last, wr, thr>>

NextDriver ==
  \/ ProbeCall
  \/ Kmalloc
  \/ EnableDevice
  \/ RequestRegions
  \/ MapBar
  \/ AllocChrdevRegion
  \/ CdevAdd
  \/ CreateNode
  \/ SetDrvdata
  \/ FailureDeviceCreate
  \/ FailureCdevAdd
  \/ FailureAllocChrdevRegion
  \/ FailureIoremap
  \/ FailurePciRegions
  \/ FailurePciEnable
  \/ FailureKmalloc
  \/ RemoveCall
  \/ DestroyNodes
  \/ CdevDel
  \/ UnregisterChrdevRegion
  \/ UnmapBars
  \/ ReleaseRegions
  \/ DisableDevice
  \/ Kfree
  \/ \E f \in Files, num \in 0 .. NumBars : Open(f, num)
  \/ \E f \in Files : Close(f)
  \/ Return

SpecDriver == Init /\ [][NextDriver]_vars


(***************************************************************************)
(* Properties.                                                             *)
(***************************************************************************)
\* the call that is returning is a read or a write made through a file whose
\* private_data leads to the live structure
LiveTransfer == last.op \in {"read", "write"} /\ last.live
\* the offset o is that of a word inside a region of len bytes
ValidOffset(o, len) == o % 4 = 0 /\ 0 <= o /\ o <= len - 4
SeekSetOrCur == last.op = "seek" /\ last.whence \in {SEEK_SET, SEEK_CUR}

\* C1: every word load of read and every word store of write goes through a
\* valid mapped base to an offset o of the region with o % 4 = 0 and
\* 0 <= o <= L - 4.
C1_AccessInsideRegion ==
  LiveTransfer =>
    \A j \in 1 .. Len(last.acc) :
      last.based /\ ValidOffset(last.acc[j], last.len)

\* C2: seek with Start or Current succeeds if and only if the resulting
\* position p is a multiple of 4 with 0 <= p <= L - 4; on success p is returned
\* and is the new position, otherwise -EINVAL is returned.
C2_SeekAcceptsExactly ==
  SeekSetOrCur /\ last.live =>
    IF ValidOffset(last.target, last.len)
    THEN last.rc = last.target /\ files[last.file].f_pos = last.target
    ELSE last.rc = -EINVAL

\* C3: a seek with Start or Current whose resulting offset is no multiple of 4
\* returns -EINVAL and leaves the position of the file as it was.
C3_MisalignedSeekRejected ==
  SeekSetOrCur /\ last.target % 4 # 0 =>
    last.rc = -EINVAL /\ files[last.file].f_pos = last.pre
C3_Witness ==
  /\ SeekSetOrCur /\ last.live
  /\ last.target % 4 # 0
  /\ last.pre # 0
  /\ last.rc = -EINVAL

\* C4: a read of 4n bytes (n >= 1) at position p without a fault makes n
\* loads, the one of index j from offset p + 4j, and returns these words in
\* this order.
C4_ReadLoadsConsecutiveWords ==
  last.op = "read" /\ last.live /\ last.based
    /\ last.arg % 4 = 0 /\ last.arg >= 4 /\ last.fault = -1 =>
    LET n == last.arg \div 4 IN
    /\ last.acc = [j \in 1 .. n |-> last.pre + 4 * (j - 1)]
    /\ Len(last.data) = n
    /\ \A j \in 1 .. n :
         last.pre + 4 * (j - 1) \in DOMAIN mem[last.num] =>
           last.data[j] = mem[last.num][last.pre + 4 * (j - 1)]

\* C5: a read or a write that transfers n bytes from position p leaves the
\* position of the file at p + n.
C5_PositionAdvances ==
  last.op \in {"read", "write"} /\ last.rc > 0 =>
    files[last.file].f_pos = last.pre + last.rc

\* C6: the position of every open file on a region of length L is a multiple
\* of 4 in [0, L - 4].
C6_PositionInRange ==
  \A f \in Files :
    files[f].open /\ Live(f) =>
      ValidOffset(files[f].f_pos, k.bar[files[f].num].len)

\* C7: a read or a write whose count is no multiple of 4 returns -EINVAL,
\* makes no load and no store, and leaves the position as it was.
C7_MisalignedCountRejected ==
  last.op \in {"read", "write"} /\ last.arg % 4 # 0 =>
    /\ last.rc = -EINVAL
    /\ last.acc = <<>> /\ last.data = <<>>
    /\ files[last.file].f_pos = last.pre
C7_Witness ==
  /\ last.op = "read" /\ last.live /\ last.based
  /\ last.arg = WordSize * MaxWords + 2
  /\ last.rc = -EINVAL

\* C8: when the copy from or to the caller's buffer faults at word j of a
\* read or a write, the call returns 4j, a success, if j >= 1 and -EFAULT if
\* j = 0; -EFAULT is returned in no other case.
C8_PartialProgress ==
  last.op \in {"read", "write"} =>
    /\ last.fault >= 1 => last.rc = 4 * last.fault /\ Len(last.data) = last.fault
    /\ last.fault = 0 => last.rc = -EFAULT /\ last.data = <<>>
    /\ last.rc = -EFAULT => last.fault = 0
C8_Witness ==
  /\ last.op = "write" /\ last.live /\ last.based
  /\ last.arg = 2 * WordSize
  /\ last.fault = 1
  /\ last.rc = WordSize

\* C9: a read of 4 bytes at a valid offset of a mapped region, made by the
\* file that last stored one word w at this offset with no register access in
\* between, returns w.
C9_RoundTrip ==
  last.op = "read" /\ last.live /\ last.based /\ last.wr # <<>>
    /\ last.arg = 4 /\ last.rc = 4
    /\ last.wr[2] = last.num /\ last.wr[3] = last.pre
    /\ ValidOffset(last.pre, last.len) =>
    last.data = <<last.wr[4]>>
C9_Witness ==
  /\ last.op = "read" /\ last.live /\ last.based /\ last.wr # <<>>
  /\ last.arg = 4 /\ last.rc = 4
  /\ last.wr[2] = last.num /\ last.wr[3] = last.pre
  /\ last.pre = 4 /\ ValidOffset(last.pre, last.len)
  /\ last.data = <<2>>

\* C10: while the driver is bound after a successful pci_probe, for every
\* index i: bar[i].len > 0 iff bar[i] has a valid mapped base iff a device
\* node is published for i.
C10_RegionResourceInvariant ==
  k.bound =>
    \A i \in Bars :
      /\ k.bar[i].len > 0 <=> (k.bar[i].addr = "iomem" /\ i \in k.mapped)
      /\ k.bar[i].len > 0 <=> i \in k.nodes

\* C14: every seek, read and write of an open file is made while its
\* private_data leads to the live struct pci_char: none is made once
\* pci_remove has unmapped the regions and freed the structure.
C14_NoUseAfterRemove ==
  last.op \in {"seek", "read", "write"} => last.live

\* C16: open of a minor above 5 returns -ENXIO; open of a minor whose BAR
\* has length 0 in the structure, as every BAR that is absent or no memory
\* has, returns -EIO; both leave no open file.  Open of a minor whose BAR has
\* a length above 0 returns 0 with private_data the device's structure and
\* the position 0.
C16_OpenOutcome ==
  last.op = "open" =>
    IF last.num > 5
    THEN last.rc = -ENXIO /\ files[last.file] = Closed
    ELSE /\ (~res[last.num].mem \/ res[last.num].len = 0) =>
              k.bar[last.num].len = 0
         /\ IF k.bar[last.num].len = 0
            THEN last.rc = -EIO /\ files[last.file] = Closed
            ELSE /\ last.rc = 0
                 /\ files[last.file] = [open |-> TRUE, num |-> last.num,
                                        f_pos |-> 0, pdata |-> "pchar"]
C16_Witness ==
  /\ last.op = "open" /\ last.num = 4
  /\ res[4].len > 0 /\ ~res[4].mem
  /\ last.rc = -EIO /\ ~files[last.file].open

(***************************************************************************)
(* Properties of attach and detach, checked under SpecDriver.              *)
(***************************************************************************)
\* the driver holds nothing of the device
NothingHeld ==
  /\ ~k.alloc /\ ~k.enabled /\ ~k.requested /\ k.mapped = {}
  /\ ~k.chrdev /\ ~k.cdev /\ k.nodes = {}
\* how often the call c is in the history log
Times(log, c) == Cardinality({j \in DOMAIN log : log[j] = c})
\* the call that gives back what the call c acquired
Undo(c) ==
  Call(CASE c.call = "kmalloc" -> "kfree"
         [] c.call = "pci_enable_device_mem" -> "pci_disable_device"
         [] c.call = "pci_request_selected_regions" -> "pci_release_selected_regions"
         [] c.call = "ioremap" -> "iounmap"
         [] c.call = "alloc_chrdev_region" -> "unregister_chrdev_region"
         [] c.call = "cdev_add" -> "cdev_del"
         [] c.call = "device_create" -> "device_destroy",
       c.i)
ProbeReturned == drv.call = "probe" /\ drv.pc = "done"

\* C11: when a kernel call of pci_probe fails (kmalloc, enabling the device,
\* requesting the regions, an ioremap, alloc_chrdev_region, cdev_add, a
\* device_create), pci_probe returns an error, the device stays unbound, every
\* call that had succeeded is undone once, and nothing is held any more.
C11_AttachAllOrNothing ==
  ProbeReturned /\ drv.failed # NoStep =>
    /\ drv.err # 0
    /\ ~k.bound
    /\ \A j \in DOMAIN drv.acq : Times(drv.rel, Undo(drv.acq[j])) = 1
    /\ NothingHeld

\* C12: when the ioremap of BAR i fails in pci_probe, pci_probe returns an
\* error, every BAR below i that it had mapped is unmapped exactly once, no
\* BAR from i on is unmapped or left mapped, the regions are released and no
\* device node has been created.
C12_MappingRollback ==
  ProbeReturned /\ drv.failed.call = "ioremap" =>
    /\ drv.err # 0
    /\ \A j \in Bars :
         IF j < drv.failed.i
         THEN Times(drv.acq, Call("ioremap", j)) = 1 =>
                Times(drv.rel, Call("iounmap", j)) = 1
         ELSE Times(drv.rel, Call("iounmap", j)) = 0 /\ j \notin k.mapped
    /\ ~k.requested
    /\ k.nodes = {}
    /\ \A j \in Bars : Times(drv.acq, Call("device_create", j)) = 0

\* C13: over the pci_remove calls made for one binding, no BAR is unmapped
\* twice, no device node destroyed twice, the char device region is not
\* unregistered twice and the structure is not freed twice.
C13_IdempotentRemove ==
  \A c \in {drv.rel[j] : j \in DOMAIN drv.rel} :
    c.call \in {"iounmap", "device_destroy", "unregister_chrdev_region", "kfree"}
      => Times(drv.rel, c) = 1

\* pci_probe is running
Probing == drv.call = "probe" /\ drv.pc # "done"

\* C18: no open succeeds while pci_probe is running: a file is opened on a
\* device node only once pci_probe has returned.
C18_NoOpenWhileProbing ==
  [][\A f \in DOMAIN files :
       ~files[f].open /\ files'[f].open => ~Probing]_vars

\* the first pci_remove call for a binding has returned
RemoveReturned == drv.call = "remove" /\ drv.pc = "done" /\ drv.removes = 1
\* where in pci_probe the calls that the call c undoes begin (0: nowhere)
AcquiredAt(c) ==
  LET S == {j \in DOMAIN drv.acq : Undo(drv.acq[j]).call = c.call} IN
  IF S = {} THEN 0 ELSE CHOOSE j \in S : \A n \in S : j <= n

\* C19: pci_remove for an attached device undoes once every call that had
\* succeeded in pci_probe, the kinds of calls in the reverse of the order in
\* which pci_probe made them, and leaves the device unbound with nothing held.
C19_DetachOrder ==
  RemoveReturned =>
    /\ \A j \in DOMAIN drv.acq : Times(drv.rel, Undo(drv.acq[j])) = 1
    /\ \A a, b \in DOMAIN drv.rel :
         a < b /\ AcquiredAt(drv.rel[a]) # 0 /\ AcquiredAt(drv.rel[b]) # 0
           => AcquiredAt(drv.rel[a]) >= AcquiredAt(drv.rel[b])
    /\ NothingHeld
    /\ ~k.bound
C19_Witness ==
  /\ RemoveReturned
  /\ drv.io = [i \in {0, 3} |-> "iomem"]
  /\ drv.rel[1] = Call("device_destroy", 0)
  /\ drv.rel[Len(drv.rel)] = Call("kfree", -1)
  /\ Len(drv.rel) = Len(drv.acq)

\* C20: in every state, also inside pci_probe, its failure path and
\* pci_remove, a BAR for which a device node exists is mapped and has a
\* length above 0, and the char device region and the cdev are registered.
C20_PublishedImpliesMapped ==
  \A i \in k.nodes :
    /\ i \in k.mapped
    /\ k.bar[i].len > 0
    /\ k.chrdev /\ k.cdev

====
